---- MODULE Spec2Model ----
(***************************************************************************)
(* HandDetector (handtrack/src/hand.ts): decoding of the palm-detection    *)
(* model's raw output into one bounding box and 7 landmarks.               *)
(*                                                                         *)
(* Numbers.  The program computes in float32; the model computes with      *)
(* exact rationals <<numerator, denominator>> (denominator > 0, lowest     *)
(* terms), so rounding is not modelled.  Every tensor operation is applied *)
(* in the order the source applies it.                                     *)
(*                                                                         *)
(* Tensors.  A tensor is [ok, shape, m]: m is the nested-sequence form of  *)
(* the data (what arraySync() returns), shape its dimensions.  A tensor    *)
(* operation whose shape assertion fails yields Err (the thrown Error),    *)
(* and every operation applied to Err yields Err.                          *)
(***************************************************************************)
EXTENDS Integers, Sequences, FiniteSets, TLC

VARIABLES
    this,          \* the detector's fields: width, height, iouThreshold, scoreThreshold,
                   \* anchors, inputSizeTensor, doubleInputSizeTensor
    live,          \* the engine's registry: number of live tensors per role
    input,         \* argument of the last call: the image shape and what predict returns for it
    modelInput,    \* shape of the tensor the last call handed to model.predict
    factors,       \* the last call's rescale factors
    box_index,     \* the last call's selected anchor row, 0-based (-1: none)
    boxes,         \* value of the local `boxes` / result of normalizeBoxes
    landmarks,     \* value of the local `landmarks` / result of _decode_landmarks
    result,        \* what the last call returned or that it threw
    arg,           \* tensor argument of the last direct normalizeBoxes/_decode_landmarks
    config0        \* ghost: the detector's fields as constructed

vars ==
    <<this, live, input, modelInput, factors, box_index, boxes, landmarks, result, arg,
      config0>>

----------------------------------------------------------------------------
\* Exact rational arithmetic standing for the float32 kernels.

Abs(n) ==
    IF n < 0 THEN -n ELSE n

RECURSIVE GCD(_, _)
GCD(a, b) ==
    IF b = 0 THEN a ELSE GCD(b, a % b)

\* n/d in lowest terms with a positive denominator (d # 0).
Rat(n, d) ==
    LET g == GCD(Abs(n), Abs(d))
        s == IF d < 0 THEN -1 ELSE 1
    IN  <<(s * n) \div g, (s * d) \div g>>

R(n) ==
    <<n, 1>>

add(a, b) ==
    Rat(a[1] * b[2] + b[1] * a[2], a[2] * b[2])

sub(a, b) ==
    Rat(a[1] * b[2] - b[1] * a[2], a[2] * b[2])

mul(a, b) ==
    Rat(a[1] * b[1], a[2] * b[2])

div(a, b) ==
    Rat(a[1] * b[2], a[2] * b[1])

Less(a, b) ==
    a[1] * b[2] < b[1] * a[2]

Leq(a, b) ==
    a[1] * b[2] <= b[1] * a[2]

Min(a, b) ==
    IF Less(b, a) THEN b ELSE a

Max(a, b) ==
    IF Less(a, b) THEN b ELSE a

\* tf.sigmoid on the raw scores the model's outputs are drawn from, to three
\* decimals (sigmoid(0) is exactly 1/2); strictly increasing, inside (0, 1).
sigmoid(x) ==
    CASE x = R(-2) -> Rat(119, 1000)
      [] x = R(-1) -> Rat(269, 1000)
      [] x = R(0)  -> Rat(1, 2)
      [] x = R(1)  -> Rat(731, 1000)
      [] x = R(2)  -> Rat(881, 1000)

----------------------------------------------------------------------------
\* Tensors and the tfjs operations the detector calls.

T(shape, m) ==
    [ok |-> TRUE, shape |-> shape, m |-> m]

Err ==
    [ok |-> FALSE, shape |-> <<>>, m |-> <<>>]

Rank(t) ==
    Len(t.shape)

\* The nested array of a tensor is a concrete sequence: a function over 1..n
\* written as the tuple of its values.
Tuple(f) ==
    f \o <<>>

\* Broadcasting (NumPy rules, right-aligned): the shape of a binary op's result,
\* or <<-1>> when the operands cannot be broadcast together.
RECURSIVE BroadcastShape(_, _)
BroadcastShape(s1, s2) ==
    IF s1 = <<>> THEN s2
    ELSE IF s2 = <<>> THEN s1
    ELSE LET d1 == s1[Len(s1)]
             d2 == s2[Len(s2)]
             rest == BroadcastShape(SubSeq(s1, 1, Len(s1) - 1), SubSeq(s2, 1, Len(s2) - 1))
         IN  IF rest = <<-1>> THEN <<-1>>
             ELSE IF d1 = d2 \/ d2 = 1 THEN Append(rest, d1)
             ELSE IF d1 = 1 THEN Append(rest, d2)
             ELSE <<-1>>

\* The scalar kernel of a binary op.
Kernel(op, x, y) ==
    CASE op = "add" -> add(x, y)
      [] op = "sub" -> sub(x, y)
      [] op = "mul" -> mul(x, y)
      [] op = "div" -> div(x, y)

\* The data of a binary op on operands of shapes s1 and s2 broadcast to `out`.
RECURSIVE BroadcastData(_, _, _, _, _, _)
BroadcastData(op, out, s1, m1, s2, m2) ==
    IF out = <<>> THEN Kernel(op, m1, m2)
    ELSE LET n == Len(out)
             has1 == Len(s1) = n
             has2 == Len(s2) = n
         IN  Tuple([i \in 1..Head(out) |->
                BroadcastData(op, Tail(out),
                    IF has1 THEN Tail(s1) ELSE s1,
                    IF has1 THEN m1[IF Head(s1) = 1 THEN 1 ELSE i] ELSE m1,
                    IF has2 THEN Tail(s2) ELSE s2,
                    IF has2 THEN m2[IF Head(s2) = 1 THEN 1 ELSE i] ELSE m2)])

BinaryOp(op, a, b) ==
    IF ~a.ok \/ ~b.ok THEN Err
    ELSE LET out == BroadcastShape(a.shape, b.shape)
         IN  IF out = <<-1>> THEN Err
             ELSE T(out, BroadcastData(op, out, a.shape, a.m, b.shape, b.m))

tf_add(a, b) ==
    BinaryOp("add", a, b)

tf_sub(a, b) ==
    BinaryOp("sub", a, b)

tf_mul(a, b) ==
    BinaryOp("mul", a, b)

tf_div(a, b) ==
    BinaryOp("div", a, b)

RECURSIVE SigmoidData(_, _)
SigmoidData(shape, m) ==
    IF shape = <<>> THEN sigmoid(m)
    ELSE Tuple([i \in 1..Head(shape) |-> SigmoidData(Tail(shape), m[i])])

tf_sigmoid(t) ==
    IF ~t.ok THEN Err ELSE T(t.shape, SigmoidData(t.shape, t.m))

\* squeeze(): every dimension of size 1 is removed.
RECURSIVE SqueezeData(_, _)
SqueezeData(shape, m) ==
    IF shape = <<>> THEN m
    ELSE IF Head(shape) = 1 THEN SqueezeData(Tail(shape), m[1])
    ELSE Tuple([i \in 1..Head(shape) |-> SqueezeData(Tail(shape), m[i])])

squeeze(t) ==
    IF ~t.ok THEN Err
    ELSE T(SelectSeq(t.shape, LAMBDA d : d # 1), SqueezeData(t.shape, t.m))

\* tf.slice on a matrix with 0-based begin and size (-1: to the end).  It throws
\* when begin's length is not the tensor's rank or the window leaves the tensor.
tf_slice(t, begin, size) ==
    IF ~t.ok \/ Rank(t) # Len(begin) \/ Rank(t) # 2 THEN Err
    ELSE LET sz == Tuple([i \in 1..2 |->
                        IF size[i] = -1 THEN t.shape[i] - begin[i] ELSE size[i]])
         IN  IF \E i \in 1..2 : sz[i] < 0 \/ begin[i] + sz[i] > t.shape[i] THEN Err
             ELSE T(sz, Tuple([i \in 1..sz[1] |->
                            Tuple([j \in 1..sz[2] |-> t.m[begin[1] + i][begin[2] + j]])]))

\* tf.slice(t, [row, 0], [1]) on a rank-3 tensor: the missing sizes are the rest
\* of each axis.
tf_slice_row(t, row) ==
    IF ~t.ok \/ Rank(t) # 3 \/ row + 1 > t.shape[1] THEN Err
    ELSE T(<<1, t.shape[2], t.shape[3]>>, <<t.m[row + 1]>>)

\* reshape([-1, 7, 2]) of a matrix [n, 14], reshape([-1, 1, 2]) of a matrix
\* [n, 2], and reshape([-1, 2]) of a [1, 7, 2] tensor: row-major regrouping.
reshape_n_7_2(t) ==
    IF ~t.ok \/ Rank(t) # 2 \/ (t.shape[1] * t.shape[2]) % 14 # 0 THEN Err
    ELSE LET c == t.shape[2]
             n == (t.shape[1] * c) \div 14
             at(k) == t.m[(k \div c) + 1][(k % c) + 1]
         IN  T(<<n, 7, 2>>,
               Tuple([i \in 1..n |-> Tuple([p \in 1..7 |-> Tuple([q \in 1..2 |->
                    at((i - 1) * 14 + (p - 1) * 2 + (q - 1))])])]))

reshape_n_1_2(t) ==
    IF ~t.ok \/ Rank(t) # 2 \/ t.shape[2] # 2 THEN Err
    ELSE T(<<t.shape[1], 1, 2>>, Tuple([i \in 1..t.shape[1] |-> <<t.m[i]>>]))

reshape_n_2(t) ==
    IF ~t.ok \/ Rank(t) # 3 \/ t.shape[3] # 2 THEN Err
    ELSE LET per == t.shape[2]
         IN  T(<<t.shape[1] * per, 2>>,
               Tuple([k \in 1..(t.shape[1] * per) |->
                    t.m[((k - 1) \div per) + 1][((k - 1) % per) + 1]]))

\* tf.concat2d([a, b], 1): rows joined side by side.
tf_concat2d(a, b) ==
    IF ~a.ok \/ ~b.ok \/ Rank(a) # 2 \/ Rank(b) # 2 THEN Err
    ELSE IF a.shape[1] # b.shape[1] THEN Err
    ELSE T(<<a.shape[1], a.shape[2] + b.shape[2]>>,
           Tuple([i \in 1..a.shape[1] |-> a.m[i] \o b.m[i]]))

----------------------------------------------------------------------------
\* The detector.

\* Layout of one prediction row (hand.ts:81-87).
NumCols == 19

NumBoxCols == 4

NumLandmarkCols == 14

\* tf.image.nonMaxSuppression's maxOutputSize argument (hand.ts:103).
MaxOutputSize == 1

\* this.anchors, this.inputSizeTensor, this.doubleInputSizeTensor as the
\* constructor builds them from (width, height, ANCHORS).
AnchorsTensor(ANCHORS) ==
    T(<<Len(ANCHORS), 2>>,
      Tuple([i \in 1..Len(ANCHORS) |-> <<ANCHORS[i].x_center, ANCHORS[i].y_center>>]))

InputSizeTensor(w, h) ==
    T(<<2>>, <<R(w), R(h)>>)

DoubleInputSizeTensor(w, h) ==
    T(<<2>>, <<R(w * 2), R(h * 2)>>)

\* Mutant of normalizeBoxes: the box sizes are divided by inputSizeTensor, not
\* by doubleInputSizeTensor.
normalizeBoxes_fullSizes(self, b) ==
    LET boxOffsets == tf_slice(b, <<0, 0>>, <<-1, 2>>)
        boxSizes == tf_slice(b, <<0, 2>>, <<-1, 2>>)
        boxCenterPoints == tf_add(tf_div(boxOffsets, self.inputSizeTensor), self.anchors)
        halfBoxSizes == tf_div(boxSizes, self.inputSizeTensor)
        startPoints == tf_sub(boxCenterPoints, halfBoxSizes)
        endPoints == tf_add(boxCenterPoints, halfBoxSizes)
    IN  tf_concat2d(tf_mul(startPoints, self.inputSizeTensor),
                    tf_mul(endPoints, self.inputSizeTensor))

normalizeBoxes(self, b) ==
    LET boxOffsets == tf_slice(b, <<0, 0>>, <<-1, 2>>)
        boxSizes == tf_slice(b, <<0, 2>>, <<-1, 2>>)
        boxCenterPoints == tf_add(tf_div(boxOffsets, self.inputSizeTensor), self.anchors)
        halfBoxSizes == tf_div(boxSizes, self.doubleInputSizeTensor)
        startPoints == tf_sub(boxCenterPoints, halfBoxSizes)
        endPoints == tf_add(boxCenterPoints, halfBoxSizes)
    IN  tf_concat2d(tf_mul(startPoints, self.inputSizeTensor),
                    tf_mul(endPoints, self.inputSizeTensor))

\* Mutant of _decode_landmarks: the anchors are added after the scaling.
decode_landmarks_anchorsUnscaled(self, raw_landmarks) ==
    LET scaled == tf_mul(tf_div(reshape_n_7_2(raw_landmarks), self.inputSizeTensor),
                         self.inputSizeTensor)
    IN  tf_add(scaled, reshape_n_1_2(self.anchors))

decode_landmarks(self, raw_landmarks) ==
    LET relative_landmarks ==
            tf_add(tf_div(reshape_n_7_2(raw_landmarks), self.inputSizeTensor),
                   reshape_n_1_2(self.anchors))
    IN  tf_mul(relative_landmarks, self.inputSizeTensor)

\* tfjs-core's intersectionOverUnion of rows i and j (1-based) of a box matrix.
intersectionOverUnion(b, i, j) ==
    LET minI1 == Min(b[i][1], b[i][3])
        minI2 == Min(b[i][2], b[i][4])
        maxI1 == Max(b[i][1], b[i][3])
        maxI2 == Max(b[i][2], b[i][4])
        minJ1 == Min(b[j][1], b[j][3])
        minJ2 == Min(b[j][2], b[j][4])
        maxJ1 == Max(b[j][1], b[j][3])
        maxJ2 == Max(b[j][2], b[j][4])
        areaI == mul(sub(maxI1, minI1), sub(maxI2, minI2))
        areaJ == mul(sub(maxJ1, minJ1), sub(maxJ2, minJ2))
        inter == mul(Max(sub(Min(maxI1, maxJ1), Max(minI1, minJ1)), R(0)),
                     Max(sub(Min(maxI2, maxJ2), Max(minI2, minJ2)), R(0)))
    IN  IF Leq(areaI, R(0)) \/ Leq(areaJ, R(0)) THEN R(0)
        ELSE div(inter, sub(add(areaI, areaJ), inter))

\* The next candidate: the highest score, the lowest index among equal scores.
BestCandidate(scores, S) ==
    CHOOSE i \in S : \A j \in S : Less(scores[j], scores[i]) \/ (scores[j] = scores[i] /\ i <= j)

RECURSIVE NmsLoop(_, _, _, _, _, _)
NmsLoop(b, scores, maxOutputSize, iou, candidates, selected) ==
    IF candidates = {} \/ Len(selected) >= maxOutputSize THEN selected
    ELSE LET c == BestCandidate(scores, candidates)
             ignore == \E k \in 1..Len(selected) :
                          ~Less(intersectionOverUnion(b, c, selected[k] + 1), iou)
         IN  NmsLoop(b, scores, maxOutputSize, iou, candidates \ {c},
                     IF ignore THEN selected ELSE Append(selected, c - 1))

\* tf.image.nonMaxSuppression(...).arraySync(): the 0-based indices kept, by
\* descending score, among the boxes whose score is above scoreThreshold.
nonMaxSuppression(b, scores, maxOutputSize, iou, scoreThr) ==
    NmsLoop(b, scores, maxOutputSize, iou,
            {i \in 1..Len(scores) : Less(scoreThr, scores[i])}, <<>>)

\* Mutant of the suppression call: the two thresholds in each other's place.
SelectBoxIndices_thresholdsSwapped(self, bxs, scores) ==
    nonMaxSuppression(bxs.m, scores.m, MaxOutputSize, self.scoreThreshold, self.iouThreshold)

\* Mutant of the suppression call: two boxes requested, the last one kept.
SelectBoxIndices_lastOfTwo(self, bxs, scores) ==
    LET kept == nonMaxSuppression(bxs.m, scores.m, MaxOutputSize + 1, self.iouThreshold,
                                  self.scoreThreshold)
    IN  IF kept = <<>> THEN <<>> ELSE <<kept[Len(kept)]>>

\* The suppression call of _getBoundingBox: at most MaxOutputSize box indices.
SelectBoxIndices(self, bxs, scores) ==
    nonMaxSuppression(bxs.m, scores.m, MaxOutputSize, self.iouThreshold, self.scoreThreshold)

\* The landmarks of the selected row: tf.slice(landmarks, [box_index, 0], [1])
\* reshaped to [7, 2].
ResultLandmarks(lms, idx) ==
    reshape_n_2(tf_slice_row(lms, idx))

\* _getBoundingBox's tidy, in the order of its statements; each stage receives
\* the locals computed so far.  The value is the locals, the pair returned, and
\* how the scope was left ("throw": an operation threw).
Left(exit, idx, bxs, lms, result_box, result_landmarks) ==
    [exit |-> exit, box_index |-> idx, boxes |-> bxs, landmarks |-> lms,
     result_box |-> result_box, result_landmarks |-> result_landmarks]

\* return [result_box, result_landmarks]
ReturnPair(bxs, idx, result_box, lms, result_landmarks) ==
    IF ~result_box.ok \/ ~result_landmarks.ok
    THEN Left("throw", -1, bxs, Err, Err, Err)
    ELSE Left("detection", idx, bxs, lms, result_box, result_landmarks)

\* result_landmarks, from the decoded landmarks
SelectLandmarks(bxs, idx, result_box, lms) ==
    ReturnPair(bxs, idx, result_box, lms, ResultLandmarks(lms, idx))

\* box_index, result_box, raw_landmarks, landmarks
SelectBox(self, prediction, bxs, idx) ==
    SelectLandmarks(bxs, idx, tf_slice(bxs, <<idx, 0>>, <<1, -1>>),
        decode_landmarks(self, tf_slice(prediction, <<0, 5>>, <<-1, NumLandmarkCols>>)))

\* if (box_indices.length === 0) return [null, null]
AfterSuppression(self, prediction, bxs, box_indices) ==
    IF Len(box_indices) = 0 THEN Left("null", -1, bxs, Err, Err, Err)
    ELSE SelectBox(self, prediction, bxs, box_indices[1])

\* nonMaxSuppression's own checks: boxes [n, 4] and scores [n]
SuppressionArgsValid(bxs, scores) ==
    /\ bxs.ok /\ scores.ok
    /\ Rank(bxs) = 2 /\ Rank(scores) = 1
    /\ bxs.shape = <<scores.shape[1], 4>>

\* box_indices
Suppress(self, prediction, scores, bxs) ==
    IF ~SuppressionArgsValid(bxs, scores) THEN Left("throw", -1, Err, Err, Err, Err)
    ELSE AfterSuppression(self, prediction, bxs, SelectBoxIndices(self, bxs, scores))

\* scores, rawBoxes, boxes
ScoresAndBoxes(self, prediction) ==
    Suppress(self, prediction,
        squeeze(tf_sigmoid(tf_slice(prediction, <<0, 0>>, <<-1, 1>>))),
        normalizeBoxes(self, tf_slice(prediction, <<0, 1>>, <<-1, NumBoxCols>>)))

\* prediction = this.model.predict(img).squeeze(), `output` being what predict returns
GetBoundingBoxBody(self, output) ==
    ScoresAndBoxes(self, squeeze(output))

----------------------------------------------------------------------------
\* The engine's tensor registry (tf.memory().numTensors), by role.

ConfigTensors ==
    {"anchors", "inputSizeTensor", "doubleInputSizeTensor"}

Roles ==
    ConfigTensors \cup {"image", "result_box", "result_landmarks", "intermediate"}

NoTensors ==
    [r \in Roles |-> 0]

\* Mutant of tf.tidy: it also disposes the detector's own tensors, as if they
\* had been created inside the scope.
tidy_disposingFields(before, created, kept) ==
    [r \in Roles |-> IF r \in kept THEN before[r] + created[r]
                     ELSE IF r \in ConfigTensors THEN 0 ELSE before[r]]

\* tf.tidy: when the scope ends, by return or by throw, every tensor created in
\* it is disposed except those the function returned.
tidy(before, created, kept) ==
    [r \in Roles |-> IF r \in kept THEN before[r] + created[r] ELSE before[r]]

dispose(registry, r) ==
    [registry EXCEPT ![r] = @ - 1]

RECURSIVE Sum(_, _)
Sum(f, S) ==
    IF S = {} THEN 0 ELSE LET r == CHOOSE x \in S : TRUE IN f[r] + Sum(f, S \ {r})

numTensors(registry) ==
    Sum(registry, Roles)

\* Tensors _getBoundingBox's scope has created when it ends: every intermediate
\* of the path taken, and the two tensors returned on the detection path.
CreatedInScope(exit) ==
    CASE exit = "detection" ->
            [NoTensors EXCEPT !["intermediate"] = 26, !["result_box"] = 1,
                              !["result_landmarks"] = 1]
      [] exit = "null" -> [NoTensors EXCEPT !["intermediate"] = 19]
      [] exit = "throw" -> [NoTensors EXCEPT !["intermediate"] = 3]

KeptByScope(exit) ==
    IF exit = "detection" THEN {"result_box", "result_landmarks"} ELSE {}

----------------------------------------------------------------------------
\* Return values.

NoResult ==
    [kind |-> "none", startPoint |-> <<>>, endPoint |-> <<>>, landmarks |-> <<>>]

Null ==
    [kind |-> "null", startPoint |-> <<>>, endPoint |-> <<>>, landmarks |-> <<>>]

Thrown ==
    [kind |-> "throw", startPoint |-> <<>>, endPoint |-> <<>>, landmarks |-> <<>>]

\* scaleBoxCoordinates (./box): every point of the box and of the landmarks is
\* multiplied by (factor[0], factor[1]).
scaleBoxCoordinates(box, factor) ==
    [kind |-> "detection",
     startPoint |-> <<mul(box.startPoint[1], factor[1]), mul(box.startPoint[2], factor[2])>>,
     endPoint |-> <<mul(box.endPoint[1], factor[1]), mul(box.endPoint[2], factor[2])>>,
     landmarks |-> Tuple([k \in 1..Len(box.landmarks) |->
                      <<mul(box.landmarks[k][1], factor[1]),
                        mul(box.landmarks[k][2], factor[2])>>])]

\* input.resizeBilinear([this.width, this.height]): the size argument is
\* [newHeight, newWidth]; the result is [batch, newHeight, newWidth, channels].
resizeBilinear(shape, size) ==
    <<shape[1], size[1], size[2], shape[4]>>

\* getSingleBoundingBox after _getBoundingBox has returned `bboxes_data` or
\* thrown, `afterTidy` being the registry at that point: the value returned (or
\* Thrown), the registry afterwards, and the locals.
ReturnDetection(self, in, afterTidy, image, bboxes_data, fs) ==
    CASE bboxes_data.exit = "throw" ->
            [result |-> Thrown, live |-> afterTidy, image |-> image, factors |-> <<>>,
             data |-> bboxes_data]
      [] bboxes_data.exit = "null" ->
            [result |-> Null, live |-> afterTidy, image |-> image, factors |-> <<>>,
             data |-> bboxes_data]
      [] bboxes_data.exit = "detection" ->
            [result |-> scaleBoxCoordinates(
                            [startPoint |-> SubSeq(bboxes_data.result_box.m[1], 1, 2),
                             endPoint |-> SubSeq(bboxes_data.result_box.m[1], 3, 4),
                             landmarks |-> bboxes_data.result_landmarks.m], fs),
             live |-> dispose(dispose(dispose(afterTidy, "image"), "result_box"),
                              "result_landmarks"),
             image |-> image, factors |-> fs, data |-> bboxes_data]

\* The call once `image` exists, `withImage` being the registry holding it.
DetectOnImage(self, in, withImage, image, bboxes_data) ==
    ReturnDetection(self, in,
        tidy(withImage, CreatedInScope(bboxes_data.exit), KeptByScope(bboxes_data.exit)),
        image, bboxes_data,
        <<Rat(in.shape[3], self.width), Rat(in.shape[2], self.height)>>)

\* getSingleBoundingBox(input) on detector `self` with the engine's registry
\* `registry`.  original_h is input.shape[1], original_w is input.shape[2]; an
\* operation on a disposed tensor throws.
GetSingleBoundingBox(self, in, registry) ==
    DetectOnImage(self, in,
        tidy(registry, [NoTensors EXCEPT !["intermediate"] = 1, !["image"] = 1], {"image"}),
        resizeBilinear(in.shape, <<self.width, self.height>>),
        GetBoundingBoxBody(self,
            IF \E r \in ConfigTensors : registry[r] = 0 THEN Err ELSE in.prediction))

----------------------------------------------------------------------------
\* Bounds of the model and the values its inputs are drawn from.

MaxAnchors == 2

MaxRows == 3

MaxLeaked == 2

Sizes ==
    {<<2, 2>>, <<2, 4>>}

IouThresholds ==
    {Rat(1, 4), Rat(1, 2)}

ScoreThresholds ==
    {Rat(3, 10), Rat(1, 2)}

RawScores ==
    {-1, 0, 1}

OriginalShapes ==
    {<<1, 4, 2, 3>>, <<1, 3, 6, 3>>}

PredictionWidths ==
    {NumBoxCols, NumCols - 1, NumCols, NumCols + 1}

\* The i-th anchor of the table handed to the constructor: normalized centers
\* in [0, 1], alternating between the left and right quarter lines.
Anchor(i) ==
    [x_center |-> Rat(2 * ((i - 1) % 2) + 1, 4), y_center |-> Rat(1, 2 + ((i - 1) \div 2))]

AnchorTable(n) ==
    Tuple([i \in 1..n |-> Anchor(i)])

\* The model's output for a frame: row i holds its raw score, then either all
\* zeros (pattern 0) or the box regression (i - 1, -1, 4, 2) and, in landmark
\* column j, the value j + i - 6 (pattern 1); columns past the 19th hold 9.
Cell(scores, pattern, i, j) ==
    IF j = 1 THEN R(scores[i])
    ELSE IF j > NumCols THEN R(9)
    ELSE IF pattern = 0 THEN R(0)
    ELSE IF j <= 1 + NumBoxCols THEN <<R(i - 1), R(-1), R(4), R(2)>>[j - 1]
    ELSE R(j + i - 6)

\* What model.predict returns: a [1, rows, cols] tensor.
Prediction(scores, pattern, cols) ==
    T(<<1, Len(scores), cols>>,
      <<Tuple([i \in 1..Len(scores) |->
                Tuple([j \in 1..cols |-> Cell(scores, pattern, i, j)])])>>)

NoInput ==
    [shape |-> <<>>, prediction |-> Err]

NoArg ==
    [fn |-> "none", t |-> Err]

----------------------------------------------------------------------------
\* Construction.

constructor(w, h, ANCHORS, iou, scoreThr) ==
    [width |-> w, height |-> h, iouThreshold |-> iou, scoreThreshold |-> scoreThr,
     anchors |-> AnchorsTensor(ANCHORS),
     inputSizeTensor |-> InputSizeTensor(w, h),
     doubleInputSizeTensor |-> DoubleInputSizeTensor(w, h)]

\* The registry after construction: the three tensors the constructor creates.
ConstructedRegistry ==
    [r \in Roles |-> IF r \in ConfigTensors THEN 1 ELSE 0]

Init ==
    /\ \E sz \in Sizes, n \in 1..MaxAnchors, iou \in IouThresholds, st \in ScoreThresholds :
          this = constructor(sz[1], sz[2], AnchorTable(n), iou, st)
    /\ config0 = this
    /\ live = ConstructedRegistry
    /\ input = NoInput
    /\ modelInput = <<>>
    /\ factors = <<>>
    /\ box_index = -1
    /\ boxes = Err
    /\ landmarks = Err
    /\ result = NoResult
    /\ arg = NoArg

----------------------------------------------------------------------------
\* Operations.

\* One call of getSingleBoundingBox on image `in`.
Call(in) ==
    \E r \in {GetSingleBoundingBox(this, in, live)} :
        /\ result' = r.result
        /\ live' = r.live
        /\ input' = in
        /\ modelInput' = r.image
        /\ factors' = r.factors
        /\ box_index' = r.data.box_index
        /\ boxes' = r.data.boxes
        /\ landmarks' = r.data.landmarks
        /\ UNCHANGED <<this, arg, config0>>

\* A video pipeline: call after call, while fewer than MaxLeaked images are
\* live.  The model answers each frame with as many rows as there are anchors
\* or one more, every row scoring alike.
getSingleBoundingBox ==
    /\ live["image"] < MaxLeaked
    /\ \E n \in {this.anchors.shape[1], this.anchors.shape[1] + 1}, s \in {-1, 1},
          p \in {0, 1} :
          Call([shape |-> <<1, 4, 2, 3>>,
                prediction |-> Prediction([i \in 1..n |-> s], p, NumCols)])

Next ==
    getSingleBoundingBox

Spec ==
    Init /\ [][Next]_vars

\* The first call of a detector, on any image and any model output.
detect ==
    /\ result.kind = "none"
    /\ \E sh \in OriginalShapes, c \in PredictionWidths, n \in 1..MaxRows, p \in {0, 1} :
         \E scores \in [1..n -> RawScores] :
            Call([shape |-> sh, prediction |-> Prediction(scores, p, c)])

NextDetect ==
    detect

SpecDetect ==
    Init /\ [][NextDetect]_vars

\* normalizeBoxes and _decode_landmarks applied directly to a tensor.
BoxRows ==
    {<<0, 0, 0, 0>>, <<1, -1, 4, 2>>, <<-2, 3, 1, 0>>}

LandmarkRows ==
    {[j \in 1..NumLandmarkCols |-> 0], [j \in 1..NumLandmarkCols |-> j],
     [j \in 1..NumLandmarkCols |-> 3 - 2 * (j % 2)]}

\* The tensor of an integer matrix given as a sequence of rows.
Matrix(rows, cols) ==
    T(<<Len(rows), cols>>,
      Tuple([i \in 1..Len(rows) |-> Tuple([j \in 1..cols |-> R(rows[i][j])])]))

NormalizeBoxes ==
    /\ arg.fn = "none"
    /\ \E n \in 1..MaxRows :
          \E rows \in [1..n -> BoxRows] :
             \E b \in {Matrix(rows, NumBoxCols)} :
                /\ arg' = [fn |-> "normalizeBoxes", t |-> b]
                /\ boxes' = normalizeBoxes(this, b)
                /\ landmarks' = Err
                /\ UNCHANGED <<this, live, input, modelInput, factors, box_index, result,
                               config0>>

DecodeLandmarks ==
    /\ arg.fn = "none"
    /\ \E n \in 1..MaxRows :
          \E rows \in [1..n -> LandmarkRows] :
             \E raw \in {Matrix(rows, NumLandmarkCols)} :
                /\ arg' = [fn |-> "_decode_landmarks", t |-> raw]
                /\ landmarks' = decode_landmarks(this, raw)
                /\ boxes' = Err
                /\ UNCHANGED <<this, live, input, modelInput, factors, box_index, result,
                               config0>>

NextDecode ==
    \/ NormalizeBoxes
    \/ DecodeLandmarks

SpecDecode ==
    Init /\ [][NextDecode]_vars

----------------------------------------------------------------------------
\* Vocabulary of the properties.

NumAnchors ==
    this.anchors.shape[1]

NumRows ==
    input.prediction.shape[2]

Called ==
    result.kind # "none"

\* The model's output has one row of 19 values per anchor.
WellFormed ==
    input.prediction.shape = <<1, NumAnchors, NumCols>>

\* sigmoid of row i's raw score (i is 1-based).
RowScore(i) ==
    sigmoid(input.prediction.m[1][i][1])

Passing ==
    {i \in 1..NumRows : Less(this.scoreThreshold, RowScore(i))}

\* The detection built from row i (1-based) of the call's decoded boxes and
\* landmarks, rescaled by the call's factors.
DetectionOfRow(i) ==
    scaleBoxCoordinates(
        [startPoint |-> SubSeq(boxes.m[i], 1, 2), endPoint |-> SubSeq(boxes.m[i], 3, 4),
         landmarks |-> landmarks.m[i]], factors)

\* Anchor i in input-resolution pixels.
AnchorPixels(i) ==
    <<mul(this.anchors.m[i][1], R(this.width)), mul(this.anchors.m[i][2], R(this.height))>>

----------------------------------------------------------------------------
\* Properties of getSingleBoundingBox.

\* C1: after any sequence of calls, whatever the exit path of each, as many
\* tensors are live as after construction: every tensor a call created has
\* been released.
C1_NoTensorOutlivesCall ==
    numTensors(live) = numTensors(ConstructedRegistry)

\* C1, the exit path that does release everything: after a call that returned
\* a detection with nothing leaked before it, the registry is the constructed one.
C1_DetectionPathReleases ==
    (result.kind = "detection" /\ live["image"] = 0) => live = ConstructedRegistry

\* C2: on a well-formed model output with at least one score above the score
\* threshold, the call returns a detection; the selected anchor has the highest
\* score, and the box and the 7 landmarks returned are both decoded from that
\* anchor's row.
C2_HighestScoringAnchorReturned ==
    (Called /\ WellFormed /\ Passing # {}) =>
        /\ result.kind = "detection"
        /\ box_index + 1 \in Passing
        /\ \A j \in 1..NumRows : Leq(RowScore(j), RowScore(box_index + 1))
        /\ Len(result.landmarks) = 7
        /\ result = DetectionOfRow(box_index + 1)

\* C2 for detectors with two or more anchors.
C2_WithTwoOrMoreAnchors ==
    NumAnchors >= 2 => C2_HighestScoringAnchorReturned

\* C3: the anchor whose box and landmarks a call returns never has a score
\* below the score threshold, whatever the model output and the IoU threshold.
C3_BelowThresholdNeverReturned ==
    result.kind = "detection" =>
        /\ box_index + 1 \in 1..NumRows
        /\ ~Less(RowScore(box_index + 1), this.scoreThreshold)
        /\ result = DetectionOfRow(box_index + 1)

\* C3's case: a detection was returned although a lower-indexed row, with a
\* score below the threshold, has overlapping non-empty box geometry.
C3_Witness ==
    /\ result.kind = "detection"
    /\ box_index >= 1
    /\ \E j \in 1..box_index :
          /\ Less(RowScore(j), this.scoreThreshold)
          /\ Less(R(0), intersectionOverUnion(boxes.m, j, box_index + 1))

\* C4: on a well-formed model output whose scores are all below the score
\* threshold, the call returns null; it neither throws nor returns a record.
C4_AllBelowThresholdReturnsNull ==
    (Called /\ WellFormed /\ \A i \in 1..NumRows : Less(RowScore(i), this.scoreThreshold)) =>
        result = Null

\* C4 for detectors with two or more anchors.
C4_WithTwoOrMoreAnchors ==
    NumAnchors >= 2 => C4_AllBelowThresholdReturnsNull

\* C5: the image handed to the model is `width` wide and `height` high, and on
\* a detection the rescale factor of each axis is the original size over the
\* model-input size on that axis, applied to the selected box and landmarks.
C5_ResizeAndRescaleAgree ==
    Called =>
        /\ modelInput = <<1, this.height, this.width, 3>>
        /\ result.kind = "detection" =>
              /\ factors = <<Rat(input.shape[3], modelInput[3]),
                             Rat(input.shape[2], modelInput[2])>>
              /\ result = DetectionOfRow(box_index + 1)

\* C5 without the resize: the factors are original width over this.width and
\* original height over this.height, applied to the selected row.
C5_FactorsFromConfiguredSize ==
    result.kind = "detection" =>
        /\ factors = <<Rat(input.shape[3], this.width), Rat(input.shape[2], this.height)>>
        /\ result = DetectionOfRow(box_index + 1)

\* C6: a model output whose row count differs from the anchor count, or whose
\* rows are not 19 wide, makes the call throw.
C6_MalformedOutputThrows ==
    (Called /\ ~WellFormed) => result.kind = "throw"

\* C6, the malformed outputs that do throw: a row count that matches no
\* broadcasting rule, a single row, or fewer than 5 columns.
C6_UnbroadcastableThrows ==
    (/\ Called
     /\ \/ (NumRows # NumAnchors /\ NumAnchors # 1)
        \/ NumRows = 1
        \/ input.prediction.shape[3] < 1 + NumBoxCols) => result.kind = "throw"

\* C8: no call changes the detector's fields or its three tensors, and every
\* call returns what a freshly constructed detector returns for the same image
\* and model output, whatever calls came before it.
C8_CallsIndependent ==
    /\ this = config0
    /\ \A r \in ConfigTensors : live[r] = 1
    /\ Called => result = GetSingleBoundingBox(config0, input, ConstructedRegistry).result

\* C8's case: a detection returned by a call that earlier calls, which returned
\* null or threw, preceded.
C8_Witness ==
    result.kind = "detection" /\ live["image"] >= 1

\* C10: a detector differing only in its IoU threshold (any of the model's
\* values, 0 or 1) returns the same result and selects the same row.
C10_IouThresholdIrrelevant ==
    Called =>
        \A t \in (IouThresholds \cup {R(0), R(1)}) \ {this.iouThreshold} :
           \E other \in {GetSingleBoundingBox([this EXCEPT !.iouThreshold = t], input,
                                              ConstructedRegistry)} :
              other.result = result /\ other.data.box_index = box_index

\* C10's case: a detection on an output for which suppression with room for
\* two boxes does depend on the IoU threshold.
C10_Witness ==
    /\ result.kind = "detection"
    /\ \E t1, t2 \in IouThresholds :
          nonMaxSuppression(boxes.m, [i \in 1..NumRows |-> RowScore(i)], 2, t1,
                            this.scoreThreshold)
          # nonMaxSuppression(boxes.m, [i \in 1..NumRows |-> RowScore(i)], 2, t2,
                              this.scoreThreshold)

----------------------------------------------------------------------------
\* Properties of normalizeBoxes and _decode_landmarks.

ZeroRow(t, i) ==
    \A j \in 1..t.shape[2] : t.m[i][j] = R(0)

\* C7: for every anchor whose row of regression values is all zero, the decoded
\* box starts and ends at the anchor in input pixels, and so does each of the 7
\* decoded landmarks.
C7_ZeroRegressionDecodesToAnchor ==
    /\ (arg.fn = "normalizeBoxes" /\ arg.t.shape[1] = NumAnchors) =>
          /\ boxes.ok /\ boxes.shape = <<NumAnchors, 4>>
          /\ \A i \in 1..NumAnchors :
                ZeroRow(arg.t, i) => boxes.m[i] = AnchorPixels(i) \o AnchorPixels(i)
    /\ (arg.fn = "_decode_landmarks" /\ arg.t.shape[1] = NumAnchors) =>
          /\ landmarks.ok /\ landmarks.shape = <<NumAnchors, 7, 2>>
          /\ \A i \in 1..NumAnchors :
                ZeroRow(arg.t, i) => \A k \in 1..7 : landmarks.m[i][k] = AnchorPixels(i)

\* C7's case: landmarks decoded for two anchors or more, the second row all
\* zero and the first not.
C7_Witness ==
    /\ arg.fn = "_decode_landmarks" /\ landmarks.ok
    /\ NumAnchors >= 2 /\ arg.t.shape[1] = NumAnchors
    /\ ZeroRow(arg.t, 2) /\ ~ZeroRow(arg.t, 1)

\* C9: row i of normalizeBoxes is [ax*width + dx - w/2, ay*height + dy - h/2,
\* ax*width + dx + w/2, ay*height + dy + h/2] for anchor i = (ax, ay) and raw
\* row i = (dx, dy, w, h); the box is exactly w by h.
C9_NormalizeBoxesClosedForm ==
    (arg.fn = "normalizeBoxes" /\ arg.t.shape[1] = NumAnchors) =>
        /\ boxes.ok /\ boxes.shape = <<NumAnchors, 4>>
        /\ \A i \in 1..NumAnchors :
              LET cx == add(AnchorPixels(i)[1], arg.t.m[i][1])
                  cy == add(AnchorPixels(i)[2], arg.t.m[i][2])
                  hw == div(arg.t.m[i][3], R(2))
                  hh == div(arg.t.m[i][4], R(2))
              IN  /\ boxes.m[i] = <<sub(cx, hw), sub(cy, hh), add(cx, hw), add(cy, hh)>>
                  /\ sub(boxes.m[i][3], boxes.m[i][1]) = arg.t.m[i][3]
                  /\ sub(boxes.m[i][4], boxes.m[i][2]) = arg.t.m[i][4]

\* C9's case: boxes decoded for two anchors or more from rows that differ, the
\* second with non-zero offsets and sizes.
C9_Witness ==
    /\ arg.fn = "normalizeBoxes" /\ boxes.ok
    /\ NumAnchors >= 2 /\ arg.t.shape[1] = NumAnchors
    /\ arg.t.m[1] # arg.t.m[2]
    /\ \A j \in 1..3 : arg.t.m[2][j] # R(0)

====
